---- MODULE Spec2Model ----
(***************************************************************************)
(* Email workflow engine, suppression/compliance gate and bounce/retry     *)
(* ledger of the lead-generation backend (services/workflow_service.py,    *)
(* services/email_compliance_service.py, services/bounce_handling_service  *)
(* .py, services/email_service.py).                                        *)
(*                                                                         *)
(* Every JSON store is a sequence of records, loaded whole and saved whole *)
(* by each operation.  Time is the UTC clock in seconds; optional values   *)
(* (Python None) are <<>> and a present value v is <<v>>.  Python dicts    *)
(* given as arguments are functions whose DOMAIN is the set of keys given. *)
(***************************************************************************)
EXTENDS Integers, Sequences, FiniteSets, TLC

VARIABLES
    now,                  \* datetime.utcnow(), seconds
    workflows,            \* database/workflows.json
    executions,           \* database/workflow_executions.json
    suppression_list,     \* database/suppression_list.json
    unsubscribe_records,  \* database/unsubscribe_records.json
    bounce_records,       \* database/bounce_records.json
    delivery_failures,    \* database/delivery_failures.json
    email_history,        \* database/email_history.json
    tasks                 \* the handler calls in flight on the event loop

vars == <<now, workflows, executions, suppression_list, unsubscribe_records,
          bounce_records, delivery_failures, email_history, tasks>>

wfVars == <<workflows, executions>>
mailVars == <<suppression_list, unsubscribe_records, bounce_records,
              delivery_failures, email_history>>

-----------------------------------------------------------------------------
(* Bounds of the model *)

MaxDays == 1        \* the clock is explored up to this many whole days
MaxHours == 1       \* ... and this many whole hours past the day
MaxWorkflows == 1   \* workflows stored at once
MaxExecutions == 2  \* executions stored at once
MaxSteps == 2       \* steps in a workflow definition given to create/update
MaxCurrentStep == 3 \* complete_execution_step is explored up to this current_step
MaxEmailLen == 2    \* characters in an email string given to an operation
MaxAddressLen == 1  \* ... of which this many are left after normalization
MaxBulk == 2        \* emails in one bulk import
MaxUnsubscribes == 1 \* unsubscribe records stored at once
MaxBounceCount == 2 \* handle_bounce is explored up to this bounce_count
MaxFailures == 1    \* delivery failures stored at once
MaxRetryCount == 3  \* retries are explored up to this retry_count
MaxSoftBounces == 5 \* soft bounces are explored up to this bounce_count
MaxAttempts == 4    \* repeated failures of one send are explored up to this retry_count
MaxTokenDays == 31  \* unsubscribe tokens are verified up to this many days on the clock
MaxTokenSeconds == 1 \* ... and this many seconds past the day
MaxStoredWorkflows == 2 \* workflows stored at once where deletion is explored
MaxTasks == 2       \* handler calls in flight at once
MaxTaskStep == 1    \* current_step of an execution where calls interleave
MaxHistory == 1     \* email history records stored at once

-----------------------------------------------------------------------------
(* Values *)

MINUTE == 60
HOUR == 3600
DAY == 86400

None == <<>>
Some(v) == <<v>>

Leads == {"l1", "l2"}
WorkflowStatuses == {"active", "paused", "draft"}

\* dict.get(key, default)
Get(d, k, default) == IF k \in DOMAIN d THEN d[k] ELSE default

\* every sequence over S of length 0..n
SeqsUpTo(S, n) == UNION {[1..k -> S] : k \in 0..n}

\* a step dict as given to create_workflow / update_workflow
StepData(t, dd, dh) ==
    [template_id |-> t, delay_days |-> dd, delay_hours |-> dh]

\* step dicts with the given (delay_days, delay_hours) pairs
StepInputs(delays) == {StepData("t1", d[1], d[2]) : d \in delays}

\* a workflow_data dict with the keys "status" and "steps" given or not
WorkflowDict(st, sp) ==
    [k \in ((IF st = None THEN {} ELSE {"status"})
            \cup (IF sp = None THEN {} ELSE {"steps"})) |->
        IF k = "status" THEN st[1] ELSE sp[1]]

\* workflow_data dicts giving at most one of the keys
WorkflowDataInputs(delays) ==
    {WorkflowDict(None, None)}
    \cup {WorkflowDict(Some(st), None) : st \in WorkflowStatuses}
    \cup {WorkflowDict(None, Some(l)) : l \in SeqsUpTo(StepInputs(delays), MaxSteps)}

-----------------------------------------------------------------------------
(* Workflow engine: services/workflow_service.py *)

\* WorkflowStep(...) built from a step dict
WorkflowStep(step) ==
    [template_id |-> Get(step, "template_id", ""),
     delay_days  |-> Get(step, "delay_days", 0),
     delay_hours |-> Get(step, "delay_hours", 0)]

BuildSteps(step_data) == [i \in 1..Len(step_data) |-> WorkflowStep(step_data[i])]

\* f"workflow_{len(workflows) + 1}_{int(timestamp)}"
WorkflowId(wfs, t) == <<Len(wfs) + 1, t>>

\* f"exec_{workflow_id}_{lead_id}_{int(timestamp)}"
ExecutionId(workflow_id, lead_id, t) == <<workflow_id, lead_id, t>>

\* get_workflow: index of the first workflow with this id, 0 for None
WorkflowIndex(wfs, workflow_id) ==
    IF \E i \in 1..Len(wfs) : wfs[i].id = workflow_id
    THEN CHOOSE i \in 1..Len(wfs) :
             /\ wfs[i].id = workflow_id
             /\ \A j \in 1..(i - 1) : wfs[j].id # workflow_id
    ELSE 0

\* the workflow record create_workflow builds
NewWorkflow(wfs, data, t) ==
    [id              |-> WorkflowId(wfs, t),
     trigger_type    |-> Get(data, "trigger_type", "manual"),
     status          |-> Get(data, "status", "active"),
     steps           |-> BuildSteps(Get(data, "steps", <<>>)),
     total_triggered |-> 0,
     last_activity   |-> None]

\* the fields update_workflow merges into a stored workflow
UpdatedWorkflow(w, data) ==
    [w EXCEPT
        !.trigger_type = Get(data, "trigger_type", w.trigger_type),
        !.status       = Get(data, "status", w.status),
        !.steps        = IF "steps" \in DOMAIN data
                         THEN BuildSteps(data["steps"]) ELSE w.steps]

\* the workflows store after update_workflow(workflow_id, data)
UpdateWorkflowStore(wfs, workflow_id, data) ==
    LET i == WorkflowIndex(wfs, workflow_id) IN
    IF i = 0 THEN wfs ELSE [wfs EXCEPT ![i] = UpdatedWorkflow(wfs[i], data)]

\* DueTime with the hours of the delay forgotten
DueTimeDaysOnly(t, step) ==
    t + (IF step.delay_days > 0 THEN step.delay_days * DAY ELSE 0)

\* now + timedelta(days) + timedelta(hours), each added only when > 0
DueTime(t, step) ==
    t + (IF step.delay_days > 0 THEN step.delay_days * DAY ELSE 0)
      + (IF step.delay_hours > 0 THEN step.delay_hours * HOUR ELSE 0)

\* next_execution computed by trigger_workflow for the first step
FirstDue(t, steps) == IF Len(steps) > 0 THEN DueTime(t, steps[1]) ELSE t

\* HasActiveExecution looking for a completed execution instead of an active one
HasCompletedExecution(execs, workflow_id, lead_id) ==
    \E i \in 1..Len(execs) :
        /\ execs[i].workflow_id = workflow_id
        /\ execs[i].lead_id = lead_id
        /\ execs[i].status = "completed"

\* an active execution already stored for the pair
HasActiveExecution(execs, workflow_id, lead_id) ==
    \E i \in 1..Len(execs) :
        /\ execs[i].workflow_id = workflow_id
        /\ execs[i].lead_id = lead_id
        /\ execs[i].status = "active"

NewExecution(w, lead_id, t) ==
    [id              |-> ExecutionId(w.id, lead_id, t),
     workflow_id     |-> w.id,
     lead_id         |-> lead_id,
     status          |-> "active",
     current_step    |-> 0,
     next_execution  |-> Some(FirstDue(t, w.steps)),
     completed_at    |-> None,
     last_email_sent |-> None]

\* the execution record after complete_execution_step on it
CompletedStep(e, w, success, t) ==
    IF success
    THEN IF e.current_step + 1 >= Len(w.steps)
         THEN [e EXCEPT !.last_email_sent = Some(t),
                        !.current_step = e.current_step + 1,
                        !.status = "completed",
                        !.completed_at = Some(t),
                        !.next_execution = None]
         ELSE [e EXCEPT !.last_email_sent = Some(t),
                        !.current_step = e.current_step + 1,
                        !.next_execution =
                            Some(DueTime(t, w.steps[e.current_step + 2]))]
    ELSE [e EXCEPT !.last_email_sent = Some(t),
                   !.status = "failed",
                   !.next_execution = None]

\* IsPending without the comparison against the clock
IsPendingAnyTime(e, t) ==
    /\ e.status = "active"
    /\ e.next_execution # None

\* get_pending_executions at time t
IsPending(e, t) ==
    /\ e.status = "active"
    /\ e.next_execution # None
    /\ e.next_execution[1] <= t

PendingExecutions(execs, t) ==
    LET Due(e) == IsPending(e, t) IN SelectSeq(execs, Due)

\* a trigger_workflow that only requires the workflow to exist
TriggerOutcomeAnyStatus(wfs, execs, workflow_id, lead_id, t) ==
    LET i == WorkflowIndex(wfs, workflow_id) IN
    IF i = 0
    THEN [ret |-> FALSE, workflows |-> wfs, executions |-> execs]
    ELSE IF HasActiveExecution(execs, workflow_id, lead_id)
    THEN [ret |-> TRUE, workflows |-> wfs, executions |-> execs]
    ELSE [ret |-> TRUE,
          executions |-> Append(execs, NewExecution(wfs[i], lead_id, t)),
          workflows |-> wfs]

\* trigger_workflow: [ret, workflows, executions]
TriggerOutcome(wfs, execs, workflow_id, lead_id, t) ==
    LET i == WorkflowIndex(wfs, workflow_id) IN
    IF i = 0 \/ (i # 0 /\ wfs[i].status # "active")
    THEN [ret |-> FALSE, workflows |-> wfs, executions |-> execs]
    ELSE IF HasActiveExecution(execs, workflow_id, lead_id)
    THEN [ret |-> TRUE, workflows |-> wfs, executions |-> execs]
    ELSE [ret |-> TRUE,
          executions |-> Append(execs, NewExecution(wfs[i], lead_id, t)),
          workflows |-> UpdateWorkflowStore(wfs, workflow_id,
              [total_triggered |-> wfs[i].total_triggered + 1,
               last_activity   |-> Some(t)])]

\* index of the execution complete_execution_step works on, 0 for none
ExecutionIndex(execs, execution_id) ==
    IF \E i \in 1..Len(execs) : execs[i].id = execution_id
    THEN CHOOSE i \in 1..Len(execs) :
             /\ execs[i].id = execution_id
             /\ \A j \in 1..(i - 1) : execs[j].id # execution_id
    ELSE 0

\* complete_execution_step: [ret, executions]
CompleteOutcome(wfs, execs, execution_id, success, t) ==
    LET i == ExecutionIndex(execs, execution_id)
        w == IF i = 0 THEN 0 ELSE WorkflowIndex(wfs, execs[i].workflow_id)
    IN  IF i = 0 \/ w = 0
        THEN [ret |-> FALSE, executions |-> execs]
        ELSE [ret |-> TRUE,
              executions |->
                  [execs EXCEPT ![i] = CompletedStep(execs[i], wfs[w], success, t)]]

\* a delete_workflow that leaves the executions file alone
DeleteOutcomeKeepingExecutions(wfs, execs, workflow_id) ==
    LET Keep(w) == w.id # workflow_id
        kept == SelectSeq(wfs, Keep)
    IN  IF Len(kept) < Len(wfs)
        THEN [ret |-> TRUE, workflows |-> kept, executions |-> execs]
        ELSE [ret |-> FALSE, workflows |-> wfs, executions |-> execs]

\* delete_workflow: [ret, workflows, executions]
DeleteOutcome(wfs, execs, workflow_id) ==
    LET Keep(w) == w.id # workflow_id
        KeepE(e) == e.workflow_id # workflow_id
        kept == SelectSeq(wfs, Keep)
    IN  IF Len(kept) < Len(wfs)
        THEN [ret |-> TRUE, workflows |-> kept,
              executions |-> SelectSeq(execs, KeepE)]
        ELSE [ret |-> FALSE, workflows |-> wfs, executions |-> execs]

\* what a store file holds after _save_workflows / _save_executions, which
\* log and swallow every exception: the new list when the write succeeded,
\* the old one when the file could not be opened, and nothing readable
\* (_load_* then returns []) when the write broke off after the truncation
SaveResults == {"written", "unwritten", "truncated"}

Saved(old, new, result) ==
    IF result = "written" THEN new
    ELSE IF result = "unwritten" THEN old
    ELSE <<>>

\* create_workflow with the result of its save: [ret, workflows]
CreateStoreOutcome(wfs, data, t, result) ==
    [ret |-> Some(NewWorkflow(wfs, data, t)),
     workflows |-> Saved(wfs, Append(wfs, NewWorkflow(wfs, data, t)), result)]

\* update_workflow with the result of its save: [ret, workflows]
UpdateStoreOutcome(wfs, workflow_id, data, result) ==
    LET i == WorkflowIndex(wfs, workflow_id) IN
    IF i = 0 THEN [ret |-> None, workflows |-> wfs]
    ELSE [ret |-> Some(UpdatedWorkflow(wfs[i], data)),
          workflows |-> Saved(wfs, UpdateWorkflowStore(wfs, workflow_id, data), result)]

\* trigger_workflow with the results of its two saves:
\* [ret, workflows, executions]
TriggerStoreOutcome(wfs, execs, workflow_id, lead_id, t, result_e, result_w) ==
    LET out == TriggerOutcome(wfs, execs, workflow_id, lead_id, t) IN
    IF Len(out.executions) = Len(execs) THEN out
    ELSE [ret |-> TRUE,
          executions |-> Saved(execs, out.executions, result_e),
          workflows |-> Saved(wfs, out.workflows, result_w)]

-----------------------------------------------------------------------------
(* Suppression / compliance gate: services/email_compliance_service.py *)

\* email strings are sequences of these characters
Chars == {"a", "A", " "}

\* str.lower() on one character
LowerChar(c) == IF c = "A" THEN "a" ELSE c

\* str.lower()
Lower(str) == [i \in 1..Len(str) |-> LowerChar(str[i])]

\* str.strip(): leading and trailing whitespace removed
RECURSIVE StripLeft(_)
StripLeft(str) ==
    IF str # <<>> /\ Head(str) = " " THEN StripLeft(Tail(str)) ELSE str

RECURSIVE StripRight(_)
StripRight(str) ==
    IF str # <<>> /\ str[Len(str)] = " "
    THEN StripRight(SubSeq(str, 1, Len(str) - 1)) ELSE str

Strip(str) == StripRight(StripLeft(str))

\* email.lower().strip()
Normalize(email) == Strip(Lower(email))

\* a lookup that compares the string as given
IsEmailSuppressedExact(sl, email) ==
    \E i \in 1..Len(sl) : sl[i].email = email

\* is_email_suppressed
IsEmailSuppressed(sl, email) ==
    \E i \in 1..Len(sl) : sl[i].email = Normalize(email)

\* get_suppression_reason: Some(reason) of the first entry for the email
SuppressionReason(sl, email) ==
    IF \E i \in 1..Len(sl) : sl[i].email = Normalize(email)
    THEN LET i == CHOOSE i \in 1..Len(sl) :
                      /\ sl[i].email = Normalize(email)
                      /\ \A j \in 1..(i - 1) : sl[j].email # Normalize(email)
         IN  Some(sl[i].reason)
    ELSE None

SuppressionEntry(email, reason, source, t) ==
    [email |-> email, reason |-> reason, source |-> source, added_at |-> t]

\* an add without the already-suppressed check
AddToSuppressionUnchecked(sl, email, reason, source, t) ==
    Append(sl, SuppressionEntry(Normalize(email), reason, source, t))

\* an add that overwrites the entry of an already-suppressed email
AddToSuppressionReplacing(sl, email, reason, source, t) ==
    LET e == Normalize(email) IN
    IF \E i \in 1..Len(sl) : sl[i].email = e
    THEN [i \in 1..Len(sl) |->
             IF sl[i].email = e THEN SuppressionEntry(e, reason, source, t) ELSE sl[i]]
    ELSE Append(sl, SuppressionEntry(e, reason, source, t))

\* the suppression list after add_to_suppression_list (which returns True)
AddToSuppression(sl, email, reason, source, t) ==
    LET e == Normalize(email) IN
    IF IsEmailSuppressed(sl, e) THEN sl
    ELSE Append(sl, SuppressionEntry(e, reason, source, t))

\* add_to_suppression_list: [ret, suppression_list]
AddOutcome(sl, email, reason, source, t) ==
    [ret |-> TRUE, suppression_list |-> AddToSuppression(sl, email, reason, source, t)]

\* unsubscribe_email: [ret, suppression_list, unsubscribe_records]
UnsubscribeOutcome(sl, recs, email, source, t) ==
    LET e == Normalize(email) IN
    IF IsEmailSuppressed(sl, e)
    THEN [ret |-> TRUE, suppression_list |-> sl, unsubscribe_records |-> recs]
    ELSE [ret |-> TRUE,
          unsubscribe_records |->
              Append(recs, [email |-> e, source |-> source, unsubscribed_at |-> t]),
          suppression_list |->
              Append(sl, SuppressionEntry(e, "unsubscribed", source, t))]

\* remove_from_suppression_list: [ret, suppression_list]
RemoveOutcome(sl, email) ==
    LET e == Normalize(email)
        Keep(x) == x.email # e
        kept == SelectSeq(sl, Keep)
    IN  IF Len(kept) < Len(sl)
        THEN [ret |-> TRUE, suppression_list |-> kept]
        ELSE [ret |-> FALSE, suppression_list |-> sl]

\* bulk_import_suppression_list: the list after the loop over the emails
RECURSIVE BulkImport(_, _, _, _)
BulkImport(sl, emails, reason, t) ==
    IF emails = <<>> THEN sl
    ELSE LET e == Normalize(Head(emails)) IN
         BulkImport(IF ~IsEmailSuppressed(sl, e)
                    THEN AddToSuppression(sl, e, reason, "bulk_import", t)
                    ELSE sl,
                    Tail(emails), reason, t)

\* filter_suppressed_emails
FilterSuppressedEmails(sl, email_list) ==
    LET suppressed_emails == {sl[i].email : i \in 1..Len(sl)}
        Free(x) == Normalize(x) \notin suppressed_emails
        kept == SelectSeq(email_list, Free)
    IN  [i \in 1..Len(kept) |-> Normalize(kept[i])]

\* str(int): the decimal digits of a natural number
DigitChars == <<"0", "1", "2", "3", "4", "5", "6", "7", "8", "9">>

RECURSIVE ToDigits(_)
ToDigits(n) ==
    IF n < 10 THEN <<DigitChars[n + 1]>>
    ELSE ToDigits(n \div 10) \o <<DigitChars[(n % 10) + 1]>>

\* float(str) of a string of decimal digits (it raises on other strings)
IsNumber(str) ==
    str # <<>> /\ \A i \in 1..Len(str) : \E d \in 1..10 : DigitChars[d] = str[i]

DigitValue(c) == (CHOOSE d \in 1..10 : DigitChars[d] = c) - 1

RECURSIVE FromDigits(_)
FromDigits(str) ==
    IF str = <<>> THEN 0
    ELSE 10 * FromDigits(SubSeq(str, 1, Len(str) - 1)) + DigitValue(str[Len(str)])

\* str.split(":")
RECURSIVE SplitColon(_)
SplitColon(str) ==
    IF \E k \in 1..Len(str) : str[k] = ":"
    THEN LET k == CHOOSE k \in 1..Len(str) :
                      str[k] = ":" /\ \A j \in 1..(k - 1) : str[j] # ":"
         IN  <<SubSeq(str, 1, k - 1)>> \o SplitColon(SubSeq(str, k + 1, Len(str)))
    ELSE <<str>>

\* f"{a}:{b}:{c}"
Join3(a, b, c) == a \o <<":">> \o b \o <<":">> \o c

\* os.getenv("UNSUBSCRIBE_SECRET", "default_secret_key")
Secret == <<"k">>

\* hashlib.sha256(data).hexdigest()[:16], taken as free of collisions: a
\* string without ":" that determines the data
Sha(data) == [i \in 1..Len(data) |-> IF data[i] = ":" THEN ";" ELSE data[i]]

TokenMaxAge == 30 * 24 * 60 * 60

\* the token inside generate_unsubscribe_link at time t; base64 is a
\* bijection, the token carries the string it decodes to
GenerateToken(email, t) ==
    LET timestamp == ToDigits(t) IN
    [b64 |-> Join3(email, timestamp, Sha(Join3(email, timestamp, Secret)))]

\* verify_unsubscribe_token at time t: Some([email, timestamp]) or None
VerifyToken(token, t) ==
    LET parts == SplitColon(token.b64) IN
    IF Len(parts) # 3 THEN None
    ELSE IF parts[3] # Sha(Join3(parts[1], parts[2], Secret)) THEN None
    ELSE IF ~IsNumber(parts[2]) THEN None
    ELSE IF t - FromDigits(parts[2]) > TokenMaxAge THEN None
    ELSE Some([email |-> parts[1], timestamp |-> parts[2]])

-----------------------------------------------------------------------------
(* Email gateway: services/email_service.py *)

\* update_email_status: the first history record with this id or resend_id
UpdateEmailStatus(hist, email_id, status) ==
    IF \E i \in 1..Len(hist) : hist[i].id = email_id \/ hist[i].resend_id = email_id
    THEN LET i == CHOOSE i \in 1..Len(hist) :
                      /\ hist[i].id = email_id \/ hist[i].resend_id = email_id
                      /\ \A j \in 1..(i - 1) :
                             ~(hist[j].id = email_id \/ hist[j].resend_id = email_id)
         IN  [hist EXCEPT ![i].status = status]
    ELSE hist

\* the history record send_email appends: response is Some(id) when Resend
\* accepted the message and None when the send raised
EmailRecord(to_email, workflow_id, lead_id, response, t) ==
    IF response # None
    THEN [id |-> response, to_email |-> to_email, workflow_id |-> workflow_id,
          lead_id |-> lead_id, resend_id |-> response, status |-> "sent"]
    ELSE [id |-> Some(<<"email", t>>), to_email |-> to_email,
          workflow_id |-> workflow_id, lead_id |-> lead_id,
          resend_id |-> None, status |-> "failed"]

-----------------------------------------------------------------------------
(* Bounce / delivery-failure ledger: services/bounce_handling_service.py *)

SoftBounceLimit == 5
DefaultMaxRetries == 3
FirstRetryMinutes == 5

RECURSIVE Pow2(_)
Pow2(n) == IF n <= 0 THEN 1 ELSE 2 * Pow2(n - 1)

\* index of the first bounce record of a (normalized) email, 0 for none
BounceIndex(br, e) ==
    IF \E i \in 1..Len(br) : br[i].email = e
    THEN CHOOSE i \in 1..Len(br) :
             br[i].email = e /\ \A j \in 1..(i - 1) : br[j].email # e
    ELSE 0

\* a RecordBounce that files every bounce as a new record
RecordBounceAppending(br, e, bounce_type, t) ==
    Append(br, [email |-> e, bounce_type |-> bounce_type,
                bounce_count |-> 1, bounced_at |-> t,
                last_bounce_at |-> t])

\* the bounce records after handle_bounce recorded the bounce (of a record's
\* fields, those no operation reads back are left out: bounce_reason,
\* resend_id, template_id, workflow_id, details; delivery_attempts always
\* equals bounce_count)
RecordBounce(br, e, bounce_type, t) ==
    LET i == BounceIndex(br, e) IN
    IF i # 0
    THEN [br EXCEPT ![i].bounce_count = @ + 1,
                    ![i].last_bounce_at = t,
                    ![i].bounce_type = bounce_type]
    ELSE Append(br, [email |-> e, bounce_type |-> bounce_type,
                     bounce_count |-> 1, bounced_at |-> t,
                     last_bounce_at |-> t])

\* a handle_bounce that files complaints as bounces
HandleBounceOutcomeOneReason(br, sl, hist, email, bounce_type, resend_id, t) ==
    LET e == Normalize(email)
        records == RecordBounce(br, e, bounce_type, t)
    IN  [ret |-> TRUE,
         bounce_records |-> records,
         suppression_list |->
             IF bounce_type \in {"hard", "complaint"}
             THEN AddToSuppression(sl, e, "bounced", "bounce_handler", t)
             ELSE sl,
         email_history |-> UpdateEmailStatus(hist, resend_id, "bounced")]

\* a handle_bounce that tolerates one more soft bounce
HandleBounceOutcomeStrict(br, sl, hist, email, bounce_type, resend_id, t) ==
    LET e == Normalize(email)
        i == BounceIndex(br, e)
        records == RecordBounce(br, e, bounce_type, t)
        current_record == IF i # 0 THEN records[i] ELSE records[Len(records)]
    IN  [ret |-> TRUE,
         bounce_records |-> records,
         suppression_list |->
             IF bounce_type = "hard"
             THEN AddToSuppression(sl, e, "bounced", "bounce_handler", t)
             ELSE IF bounce_type = "soft"
             THEN IF current_record.bounce_count > SoftBounceLimit
                  THEN AddToSuppression(sl, e, "bounced", "bounce_handler", t)
                  ELSE sl
             ELSE IF bounce_type = "complaint"
             THEN AddToSuppression(sl, e, "complained", "bounce_handler", t)
             ELSE sl,
         email_history |-> UpdateEmailStatus(hist, resend_id, "bounced")]

\* handle_bounce: [ret, bounce_records, suppression_list, email_history]
HandleBounceOutcome(br, sl, hist, email, bounce_type, resend_id, t) ==
    LET e == Normalize(email)
        i == BounceIndex(br, e)
        records == RecordBounce(br, e, bounce_type, t)
        current_record == IF i # 0 THEN records[i] ELSE records[Len(records)]
        suppressions ==
            IF bounce_type = "hard"
            THEN AddToSuppression(sl, e, "bounced", "bounce_handler", t)
            ELSE IF bounce_type = "soft"
            THEN IF current_record.bounce_count >= SoftBounceLimit
                 THEN AddToSuppression(sl, e, "bounced", "bounce_handler", t)
                 ELSE sl
            ELSE IF bounce_type = "complaint"
            THEN AddToSuppression(sl, e, "complained", "bounce_handler", t)
            ELSE sl
    IN  [ret |-> TRUE,
         bounce_records |-> records,
         suppression_list |-> suppressions,
         email_history |-> UpdateEmailStatus(hist, resend_id, "bounced")]

\* index of the first delivery failure of (email, resend_id), 0 for none
FailureIndex(df, email, resend_id) ==
    IF \E i \in 1..Len(df) : df[i].email = email /\ df[i].resend_id = resend_id
    THEN CHOOSE i \in 1..Len(df) :
             /\ df[i].email = email /\ df[i].resend_id = resend_id
             /\ \A j \in 1..(i - 1) :
                    ~(df[j].email = email /\ df[j].resend_id = resend_id)
    ELSE 0

\* timedelta(minutes = 2 ** retry_count * 60), in seconds
RetryDelay(retry_count) == (Pow2(retry_count) * 60) * MINUTE

NewFailure(e, resend_id, t) ==
    [email |-> e, resend_id |-> resend_id, retry_count |-> 0, failed_at |-> t,
     next_retry_at |-> Some(t + FirstRetryMinutes * MINUTE),
     max_retries |-> DefaultMaxRetries]

\* a handle_delivery_failure that stops retrying without escalating
HandleDeliveryFailureOutcomeQuiet(df, br, sl, hist, email, resend_id, t) ==
    LET e == Normalize(email)
        i == FailureIndex(df, e, resend_id)
        retry_count == df[i].retry_count + 1
    IN  [ret |-> TRUE,
         delivery_failures |->
             IF i = 0 THEN Append(df, NewFailure(e, resend_id, t))
             ELSE IF retry_count < df[i].max_retries
             THEN [df EXCEPT ![i].retry_count = retry_count,
                             ![i].failed_at = t,
                             ![i].next_retry_at = Some(t + RetryDelay(retry_count))]
             ELSE [df EXCEPT ![i].retry_count = retry_count,
                             ![i].failed_at = t],
         bounce_records |-> br,
         suppression_list |-> sl,
         email_history |-> UpdateEmailStatus(hist, resend_id, "failed")]

\* handle_delivery_failure:
\* [ret, delivery_failures, bounce_records, suppression_list, email_history]
HandleDeliveryFailureOutcome(df, br, sl, hist, email, resend_id, t) ==
    LET e == Normalize(email)
        i == FailureIndex(df, e, resend_id)
        retry_count == df[i].retry_count + 1
        exhausted == i # 0 /\ ~(retry_count < df[i].max_retries)
        bounce == HandleBounceOutcome(br, sl, hist, e, "hard", resend_id, t)
    IN  [ret |-> TRUE,
         delivery_failures |->
             IF i = 0 THEN Append(df, NewFailure(e, resend_id, t))
             ELSE IF retry_count < df[i].max_retries
             THEN [df EXCEPT ![i].retry_count = retry_count,
                             ![i].failed_at = t,
                             ![i].next_retry_at = Some(t + RetryDelay(retry_count))]
             ELSE [df EXCEPT ![i].retry_count = retry_count,
                             ![i].failed_at = t],
         bounce_records |-> IF exhausted THEN bounce.bounce_records ELSE br,
         suppression_list |-> IF exhausted THEN bounce.suppression_list ELSE sl,
         email_history |->
             UpdateEmailStatus(IF exhausted THEN bounce.email_history ELSE hist,
                               resend_id, "failed")]

\* s without its i-th element
RemoveAt(s, i) == SubSeq(s, 1, i - 1) \o SubSeq(s, i + 1, Len(s))

\* a mark_retry_completed whose failed retry waits one backoff step less
MarkRetryCompletedOutcomeShortBackoff(df, br, sl, hist, email, resend_id, success, t) ==
    LET i == FailureIndex(df, email, resend_id)
        retry_count == df[i].retry_count + 1
        exhausted == i # 0 /\ ~success /\ retry_count >= df[i].max_retries
        bounce == HandleBounceOutcome(br, sl, hist, email, "hard", resend_id, t)
    IN  [ret |-> TRUE,
         delivery_failures |->
             IF i = 0 THEN df
             ELSE IF success THEN RemoveAt(df, i)
             ELSE IF retry_count >= df[i].max_retries
             THEN [df EXCEPT ![i].retry_count = retry_count,
                             ![i].failed_at = t]
             ELSE [df EXCEPT ![i].retry_count = retry_count,
                             ![i].failed_at = t,
                             ![i].next_retry_at =
                                 Some(t + RetryDelay(retry_count - 1))],
         bounce_records |-> IF exhausted THEN bounce.bounce_records ELSE br,
         suppression_list |-> IF exhausted THEN bounce.suppression_list ELSE sl,
         email_history |-> IF exhausted THEN bounce.email_history ELSE hist]

\* mark_retry_completed (the email is compared as given, not normalized):
\* [ret, delivery_failures, bounce_records, suppression_list, email_history]
MarkRetryCompletedOutcome(df, br, sl, hist, email, resend_id, success, t) ==
    LET i == FailureIndex(df, email, resend_id)
        retry_count == df[i].retry_count + 1
        exhausted == i # 0 /\ ~success /\ retry_count >= df[i].max_retries
        bounce == HandleBounceOutcome(br, sl, hist, email, "hard", resend_id, t)
    IN  [ret |-> TRUE,
         delivery_failures |->
             IF i = 0 THEN df
             ELSE IF success THEN RemoveAt(df, i)
             ELSE IF retry_count >= df[i].max_retries
             THEN [df EXCEPT ![i].retry_count = retry_count,
                             ![i].failed_at = t]
             ELSE [df EXCEPT ![i].retry_count = retry_count,
                             ![i].failed_at = t,
                             ![i].next_retry_at = Some(t + RetryDelay(retry_count))],
         bounce_records |-> IF exhausted THEN bounce.bounce_records ELSE br,
         suppression_list |-> IF exhausted THEN bounce.suppression_list ELSE sl,
         email_history |-> IF exhausted THEN bounce.email_history ELSE hist]

\* get_emails_for_retry at time t
IsRetryDue(f, t) ==
    /\ f.next_retry_at # None
    /\ f.next_retry_at[1] <= t
    /\ f.retry_count < f.max_retries

EmailsForRetry(df, t) == LET Due(f) == IsRetryDue(f, t) IN SelectSeq(df, Due)

\* cleanup_old_records: [bounce_records, delivery_failures]
CleanupOutcome(br, df, days_old, t) ==
    LET cutoff_date == t - days_old * DAY
        KeepB(r) == r.last_bounce_at > cutoff_date
        KeepF(f) == f.failed_at > cutoff_date
    IN  [bounce_records |-> SelectSeq(br, KeepB),
         delivery_failures |-> SelectSeq(df, KeepF)]

-----------------------------------------------------------------------------
(* Operations *)

CreateWorkflow(data) ==
    /\ workflows' = Append(workflows, NewWorkflow(workflows, data, now))
    /\ UNCHANGED <<tasks, now, executions, mailVars>>

UpdateWorkflow(workflow_id, data) ==
    /\ workflows' = UpdateWorkflowStore(workflows, workflow_id, data)
    /\ UNCHANGED <<tasks, now, executions, mailVars>>

\* a pause that also stops the workflow's in-flight executions
PauseWorkflowStoppingExecutions(workflow_id) ==
    /\ workflows' = UpdateWorkflowStore(workflows, workflow_id, [status |-> "paused"])
    /\ executions' = [i \in 1..Len(executions) |->
           IF executions[i].workflow_id = workflow_id /\ executions[i].status = "active"
           THEN [executions[i] EXCEPT !.status = "paused", !.next_execution = None]
           ELSE executions[i]]
    /\ UNCHANGED <<tasks, now, mailVars>>

PauseWorkflow(workflow_id) ==
    /\ workflows' = UpdateWorkflowStore(workflows, workflow_id,
                                        [status |-> "paused"])
    /\ UNCHANGED <<tasks, now, executions, mailVars>>

ActivateWorkflow(workflow_id) ==
    /\ workflows' = UpdateWorkflowStore(workflows, workflow_id,
                                        [status |-> "active"])
    /\ UNCHANGED <<tasks, now, executions, mailVars>>

DeleteWorkflow(workflow_id) ==
    LET out == DeleteOutcome(workflows, executions, workflow_id) IN
    /\ workflows' = out.workflows
    /\ executions' = out.executions
    /\ UNCHANGED <<tasks, now, mailVars>>

TriggerWorkflow(workflow_id, lead_id) ==
    LET out == TriggerOutcome(workflows, executions, workflow_id, lead_id, now) IN
    /\ workflows' = out.workflows
    /\ executions' = out.executions
    /\ UNCHANGED <<tasks, now, mailVars>>

CompleteExecutionStep(execution_id, success) ==
    LET out == CompleteOutcome(workflows, executions, execution_id, success, now) IN
    /\ executions' = out.executions
    /\ UNCHANGED <<tasks, now, workflows, mailVars>>

AddToSuppressionList(email, reason, source) ==
    /\ suppression_list' =
           AddOutcome(suppression_list, email, reason, source, now).suppression_list
    /\ UNCHANGED <<tasks, now, wfVars, unsubscribe_records, bounce_records,
                   delivery_failures, email_history>>

UnsubscribeEmail(email, source) ==
    LET out == UnsubscribeOutcome(suppression_list, unsubscribe_records,
                                  email, source, now) IN
    /\ suppression_list' = out.suppression_list
    /\ unsubscribe_records' = out.unsubscribe_records
    /\ UNCHANGED <<tasks, now, wfVars, bounce_records, delivery_failures, email_history>>

RemoveFromSuppressionList(email) ==
    /\ suppression_list' = RemoveOutcome(suppression_list, email).suppression_list
    /\ UNCHANGED <<tasks, now, wfVars, unsubscribe_records, bounce_records,
                   delivery_failures, email_history>>

BulkImportSuppressionList(emails, reason) ==
    /\ suppression_list' = BulkImport(suppression_list, emails, reason, now)
    /\ UNCHANGED <<tasks, now, wfVars, unsubscribe_records, bounce_records,
                   delivery_failures, email_history>>

HandleBounce(email, bounce_type, resend_id) ==
    LET out == HandleBounceOutcome(bounce_records, suppression_list, email_history,
                                   email, bounce_type, resend_id, now) IN
    /\ bounce_records' = out.bounce_records
    /\ suppression_list' = out.suppression_list
    /\ email_history' = out.email_history
    /\ UNCHANGED <<tasks, now, wfVars, unsubscribe_records, delivery_failures>>

HandleDeliveryFailure(email, resend_id) ==
    LET out == HandleDeliveryFailureOutcome(delivery_failures, bounce_records,
                   suppression_list, email_history, email, resend_id, now) IN
    /\ delivery_failures' = out.delivery_failures
    /\ bounce_records' = out.bounce_records
    /\ suppression_list' = out.suppression_list
    /\ email_history' = out.email_history
    /\ UNCHANGED <<tasks, now, wfVars, unsubscribe_records>>

MarkRetryCompleted(email, resend_id, success) ==
    LET out == MarkRetryCompletedOutcome(delivery_failures, bounce_records,
                   suppression_list, email_history, email, resend_id, success, now) IN
    /\ delivery_failures' = out.delivery_failures
    /\ bounce_records' = out.bounce_records
    /\ suppression_list' = out.suppression_list
    /\ email_history' = out.email_history
    /\ UNCHANGED <<tasks, now, wfVars, unsubscribe_records>>

CleanupOldRecords(days_old) ==
    LET out == CleanupOutcome(bounce_records, delivery_failures, days_old, now) IN
    /\ bounce_records' = out.bounce_records
    /\ delivery_failures' = out.delivery_failures
    /\ UNCHANGED <<tasks, now, wfVars, suppression_list, unsubscribe_records, email_history>>

\* send_email: Resend accepts the message (response Some(id)) or raises (None)
SendEmail(to_email, workflow_id, lead_id, response) ==
    /\ email_history' = Append(email_history,
           EmailRecord(to_email, workflow_id, lead_id, response, now))
    /\ UNCHANGED <<tasks, now, wfVars, suppression_list, unsubscribe_records,
                   bounce_records, delivery_failures>>

CreateWorkflowStoring(data, result) ==
    /\ workflows' = CreateStoreOutcome(workflows, data, now, result).workflows
    /\ UNCHANGED <<tasks, now, executions, mailVars>>

UpdateWorkflowStoring(workflow_id, data, result) ==
    /\ workflows' = UpdateStoreOutcome(workflows, workflow_id, data, result).workflows
    /\ UNCHANGED <<tasks, now, executions, mailVars>>

TriggerWorkflowStoring(workflow_id, lead_id, result_e, result_w) ==
    LET out == TriggerStoreOutcome(workflows, executions, workflow_id, lead_id,
                                   now, result_e, result_w) IN
    /\ workflows' = out.workflows
    /\ executions' = out.executions
    /\ UNCHANGED <<tasks, now, mailVars>>

\* POST /api/email-automation/unsubscribe/token
UnsubscribeWithToken(token) ==
    LET token_data == VerifyToken(token, now) IN
    IF token_data = None
    THEN UNCHANGED vars
    ELSE UnsubscribeEmail(token_data[1].email, "email_link")

\* the clock advances by d seconds
TimeOK(t) == t \div DAY <= MaxDays /\ (t % DAY) \div HOUR <= MaxHours

Tick(d) ==
    /\ TimeOK(now + d)
    /\ now' = now + d
    /\ UNCHANGED <<tasks, wfVars, mailVars>>

-----------------------------------------------------------------------------
(* Specifications *)

UnknownWorkflowId == <<0, 0>>
UnknownExecutionId == <<UnknownWorkflowId, "l1", 0>>

\* the handler calls that can be in flight at once, and a call's frame: where
\* it stands (pc), its arguments, and the locals it holds across an await
Tasks == 1..MaxTasks

IdleTask ==
    [pc |-> "idle", workflow_id |-> UnknownWorkflowId, lead_id |-> "l1",
     execution_id |-> UnknownExecutionId, success |-> FALSE,
     workflow |-> None, executions |-> <<>>]

Init ==
    /\ now = 0
    /\ workflows = <<>>
    /\ executions = <<>>
    /\ suppression_list = <<>>
    /\ unsubscribe_records = <<>>
    /\ bounce_records = <<>>
    /\ delivery_failures = <<>>
    /\ email_history = <<>>
    /\ tasks = [k \in Tasks |-> IdleTask]


WorkflowIdInputs == {workflows[i].id : i \in 1..Len(workflows)} \cup {UnknownWorkflowId}
ExecutionIdInputs == {executions[i].id : i \in 1..Len(executions)} \cup {UnknownExecutionId}

\* the stores stay within the bounds of the model
WithinBounds ==
    /\ Len(workflows') <= MaxWorkflows
    /\ Len(executions') <= MaxExecutions
    /\ \A i \in 1..Len(executions') : executions'[i].current_step <= MaxCurrentStep

\* the workflow engine, with hour delays and an hourly clock
EngineDelays == {<<0, 0>>, <<0, 1>>}

NextWorkflow ==
    \/ \E data \in WorkflowDataInputs(EngineDelays) :
           CreateWorkflow(data) /\ WithinBounds
    \/ \E w \in WorkflowIdInputs, data \in WorkflowDataInputs(EngineDelays) :
           UpdateWorkflow(w, data) /\ WithinBounds
    \/ \E w \in WorkflowIdInputs : PauseWorkflow(w) /\ WithinBounds
    \/ \E w \in WorkflowIdInputs : ActivateWorkflow(w) /\ WithinBounds
    \/ \E w \in WorkflowIdInputs : DeleteWorkflow(w) /\ WithinBounds
    \/ \E w \in WorkflowIdInputs, l \in Leads :
           TriggerWorkflow(w, l) /\ WithinBounds
    \/ \E x \in ExecutionIdInputs, s \in BOOLEAN :
           CompleteExecutionStep(x, s) /\ WithinBounds
    \/ Tick(HOUR)

SpecWorkflow == Init /\ [][NextWorkflow]_vars

\* the scheduler: step lists are fixed at creation, delays in days and hours
ScheduleDelays == {<<0, 0>>, <<1, 1>>}

NextSchedule ==
    \/ \E data \in WorkflowDataInputs(ScheduleDelays) :
           CreateWorkflow(data) /\ WithinBounds
    \/ \E w \in WorkflowIdInputs : PauseWorkflow(w) /\ WithinBounds
    \/ \E w \in WorkflowIdInputs : ActivateWorkflow(w) /\ WithinBounds
    \/ \E w \in WorkflowIdInputs, l \in Leads :
           TriggerWorkflow(w, l) /\ WithinBounds
    \/ \E x \in ExecutionIdInputs, s \in BOOLEAN :
           CompleteExecutionStep(x, s) /\ WithinBounds
    \/ \E d \in {HOUR, DAY} : Tick(d)

SpecSchedule == Init /\ [][NextSchedule]_vars

\* inputs of the suppression and ledger operations
EmailInputs ==
    {str \in SeqsUpTo(Chars, MaxEmailLen) : Len(Normalize(str)) <= MaxAddressLen}
ResendIds == {None, Some(<<"re", 1>>)}
BounceTypes == {"hard", "soft", "complaint"}
DaysOldInputs == {0, 1}

WithinMailBounds ==
    /\ Len(unsubscribe_records') <= MaxUnsubscribes
    /\ \A i \in 1..Len(bounce_records') :
           bounce_records'[i].bounce_count <= MaxBounceCount
    /\ Len(delivery_failures') <= MaxFailures
    /\ \A i \in 1..Len(delivery_failures') :
           delivery_failures'[i].retry_count <= MaxRetryCount
    /\ Len(email_history') <= MaxHistory

\* the suppression list under every operation that writes it
NextSuppression ==
    \/ \E e \in EmailInputs :
           AddToSuppressionList(e, "manual", "manual") /\ WithinMailBounds
    \/ \E e \in EmailInputs : UnsubscribeEmail(e, "email_link") /\ WithinMailBounds
    \/ \E l \in SeqsUpTo(EmailInputs, MaxBulk) :
           BulkImportSuppressionList(l, "imported") /\ WithinMailBounds
    \/ \E e \in EmailInputs : RemoveFromSuppressionList(e) /\ WithinMailBounds
    \/ \E e \in EmailInputs, bt \in BounceTypes, r \in ResendIds :
           HandleBounce(e, bt, r) /\ WithinMailBounds

SpecSuppression == Init /\ [][NextSuppression]_vars

\* the bounce / delivery-failure ledger next to the suppression list
NextLedger ==
    \/ \E e \in EmailInputs :
           AddToSuppressionList(e, "manual", "manual") /\ WithinMailBounds
    \/ \E e \in EmailInputs : RemoveFromSuppressionList(e) /\ WithinMailBounds
    \/ \E e \in EmailInputs, bt \in BounceTypes, r \in ResendIds :
           HandleBounce(e, bt, r) /\ WithinMailBounds
    \/ \E e \in EmailInputs, r \in ResendIds :
           HandleDeliveryFailure(e, r) /\ WithinMailBounds
    \/ \E e \in EmailInputs, r \in ResendIds, ok \in BOOLEAN :
           MarkRetryCompleted(e, r, ok) /\ WithinMailBounds
    \/ \E d \in DaysOldInputs : CleanupOldRecords(d) /\ WithinMailBounds

SpecLedger == Init /\ [][NextLedger]_vars

\* steps that are due as soon as they are scheduled
GateDelays == {<<0, 0>>}

\* the workflow engine next to the gateway and the suppression list
NextGate ==
    \/ \E data \in WorkflowDataInputs(GateDelays) : CreateWorkflow(data) /\ WithinBounds
    \/ \E w \in WorkflowIdInputs, l \in Leads : TriggerWorkflow(w, l) /\ WithinBounds
    \/ \E x \in ExecutionIdInputs, ok \in BOOLEAN :
           CompleteExecutionStep(x, ok) /\ WithinBounds
    \/ \E e \in EmailInputs :
           AddToSuppressionList(e, "manual", "manual") /\ WithinMailBounds
    \/ \E e \in EmailInputs, w \in WorkflowIdInputs, l \in Leads, r \in ResendIds :
           SendEmail(e, Some(w), Some(l), r) /\ WithinMailBounds

SpecGate == Init /\ [][NextGate]_vars

WithinSoftBounds ==
    /\ \A i \in 1..Len(bounce_records') :
           bounce_records'[i].bounce_count <= MaxSoftBounces
    /\ Len(email_history') <= MaxHistory

\* repeated bounces of an address up to the soft-bounce threshold
NextSoftBounce ==
    \/ \E e \in EmailInputs, bt \in BounceTypes, r \in ResendIds :
           HandleBounce(e, bt, r) /\ WithinSoftBounds
    \/ \E e \in EmailInputs : RemoveFromSuppressionList(e) /\ WithinSoftBounds

SpecSoftBounce == Init /\ [][NextSoftBounce]_vars

WithinRetryBounds ==
    /\ Len(delivery_failures') <= MaxFailures
    /\ \A i \in 1..Len(delivery_failures') :
           delivery_failures'[i].retry_count <= MaxAttempts
    /\ \A i \in 1..Len(bounce_records') :
           bounce_records'[i].bounce_count <= MaxBounceCount
    /\ Len(email_history') <= MaxHistory

\* repeated delivery failures and retries of a send, over time
NextRetry ==
    \/ \E e \in EmailInputs, r \in ResendIds :
           HandleDeliveryFailure(e, r) /\ WithinRetryBounds
    \/ \E e \in EmailInputs, r \in ResendIds, ok \in BOOLEAN :
           MarkRetryCompleted(e, r, ok) /\ WithinRetryBounds
    \/ \E d \in {HOUR, DAY} : Tick(d)

SpecRetry == Init /\ [][NextRetry]_vars

\* emails and issue times of unsubscribe links
TokenChars == {"a", ":"}
TokenEmails == SeqsUpTo(TokenChars, MaxEmailLen)
IssueTimes == {0, 1, DAY}
IssuedTokens == {GenerateToken(e, t) : e \in TokenEmails, t \in {t \in IssueTimes : t <= now}}

TokenTimeOK(t) == t \div DAY <= MaxTokenDays /\ t % DAY <= MaxTokenSeconds

TokenTick(d) ==
    /\ TokenTimeOK(now + d)
    /\ now' = now + d
    /\ UNCHANGED <<tasks, wfVars, mailVars>>

\* unsubscribe links issued and followed over a month
NextToken ==
    \/ \E token \in IssuedTokens : UnsubscribeWithToken(token) /\ WithinMailBounds
    \/ \E d \in {1, DAY, 30 * DAY} : TokenTick(d)

SpecToken == Init /\ [][NextToken]_vars

\* the workflow engine over store files whose writes can fail
NextStore ==
    \/ \E data \in WorkflowDataInputs(EngineDelays), s \in SaveResults :
           CreateWorkflowStoring(data, s) /\ WithinBounds
    \/ \E w \in WorkflowIdInputs, data \in WorkflowDataInputs(EngineDelays),
          s \in SaveResults :
           UpdateWorkflowStoring(w, data, s) /\ WithinBounds
    \/ \E w \in WorkflowIdInputs, l \in Leads, se \in SaveResults, sw \in SaveResults :
           TriggerWorkflowStoring(w, l, se, sw) /\ WithinBounds
    \/ \E x \in ExecutionIdInputs, ok \in BOOLEAN :
           CompleteExecutionStep(x, ok) /\ WithinBounds

SpecStore == Init /\ [][NextStore]_vars

WithinDeleteBounds ==
    /\ Len(workflows') <= MaxStoredWorkflows
    /\ Len(executions') <= MaxExecutions
    /\ \A i \in 1..Len(executions') : executions'[i].current_step <= MaxCurrentStep

\* several workflows with executions, created and deleted
NextDelete ==
    \/ \E data \in WorkflowDataInputs(GateDelays) :
           CreateWorkflow(data) /\ WithinDeleteBounds
    \/ \E w \in WorkflowIdInputs, l \in Leads :
           TriggerWorkflow(w, l) /\ WithinDeleteBounds
    \/ \E x \in ExecutionIdInputs, ok \in BOOLEAN :
           CompleteExecutionStep(x, ok) /\ WithinDeleteBounds
    \/ \E w \in WorkflowIdInputs : DeleteWorkflow(w) /\ WithinDeleteBounds
    \/ Tick(HOUR)

SpecDelete == Init /\ [][NextDelete]_vars

\* the bounce ledger over time: bounces, escalated delivery failures and
\* retention cleanup
NextBounce ==
    \/ \E e \in EmailInputs, bt \in BounceTypes :
           HandleBounce(e, bt, None) /\ WithinMailBounds
    \/ \E e \in EmailInputs :
           HandleDeliveryFailure(e, None) /\ WithinMailBounds
    \/ \E d \in DaysOldInputs : CleanupOldRecords(d) /\ WithinMailBounds
    \/ Tick(DAY)

SpecBounce == Init /\ [][NextBounce]_vars

-----------------------------------------------------------------------------
(* Handler calls as tasks of one event loop.  A call runs without          *)
(* interruption from one await to the next; at an await the loop may run   *)
(* another task before the call goes on.  A call that returns leaves the   *)
(* loop, and its frame is idle again.                                      *)

\* an executions list after trigger_workflow's creation without its check
CheckThenCreateUnchecked(execs, w, lead_id, t) ==
    Append(execs, NewExecution(w, lead_id, t))

\* the executions list after trigger_workflow's check for an active
\* execution of the pair and its creation of one (no await in between)
CheckThenCreate(execs, w, lead_id, t) ==
    IF HasActiveExecution(execs, w.id, lead_id)
    THEN execs
    ELSE Append(execs, NewExecution(w, lead_id, t))

\* trigger_workflow(workflow_id, lead_id) is called
StartTrigger(k, workflow_id, lead_id) ==
    /\ tasks[k].pc = "idle"
    /\ tasks' = [tasks EXCEPT ![k] =
           [IdleTask EXCEPT !.pc = "trigger_get_workflow",
                            !.workflow_id = workflow_id,
                            !.lead_id = lead_id]]
    /\ UNCHANGED <<now, wfVars, mailVars>>

\* workflow = await self.get_workflow(workflow_id), and the test of it
TriggerGetWorkflow(k) ==
    LET i == WorkflowIndex(workflows, tasks[k].workflow_id) IN
    /\ tasks[k].pc = "trigger_get_workflow"
    /\ tasks' = [tasks EXCEPT ![k] =
           IF i = 0 \/ workflows[i].status # "active"
           THEN IdleTask
           ELSE [@ EXCEPT !.pc = "trigger_check_create",
                          !.workflow = Some(workflows[i])]]
    /\ UNCHANGED <<now, wfVars, mailVars>>

\* from _load_executions to _save_executions, then the counters on the
\* call's own workflow object, up to await self.update_workflow(...)
TriggerCheckCreate(k) ==
    LET w == tasks[k].workflow[1]
        created == CheckThenCreate(executions, w, tasks[k].lead_id, now)
    IN  /\ tasks[k].pc = "trigger_check_create"
        /\ executions' = created
        /\ tasks' = [tasks EXCEPT ![k] =
               IF Len(created) = Len(executions)
               THEN IdleTask
               ELSE [@ EXCEPT !.pc = "trigger_update_workflow",
                              !.workflow = Some(
                                  [w EXCEPT !.total_triggered = @ + 1,
                                            !.last_activity = Some(now)])]]
        /\ UNCHANGED <<now, workflows, mailVars>>

\* the awaited update_workflow with the counters, and the return
TriggerUpdateWorkflow(k) ==
    LET w == tasks[k].workflow[1] IN
    /\ tasks[k].pc = "trigger_update_workflow"
    /\ workflows' = UpdateWorkflowStore(workflows, tasks[k].workflow_id,
           [total_triggered |-> w.total_triggered,
            last_activity   |-> w.last_activity])
    /\ tasks' = [tasks EXCEPT ![k] = IdleTask]
    /\ UNCHANGED <<now, executions, mailVars>>

\* complete_execution_step(execution_id, success) is called
StartComplete(k, execution_id, success) ==
    /\ tasks[k].pc = "idle"
    /\ tasks' = [tasks EXCEPT ![k] =
           [IdleTask EXCEPT !.pc = "complete_load_executions",
                            !.execution_id = execution_id,
                            !.success = success]]
    /\ UNCHANGED <<now, wfVars, mailVars>>

\* executions = self._load_executions() and the search for the id, up to
\* await self.get_workflow(...)
CompleteLoadExecutions(k) ==
    /\ tasks[k].pc = "complete_load_executions"
    /\ tasks' = [tasks EXCEPT ![k] =
           IF ExecutionIndex(executions, tasks[k].execution_id) = 0
           THEN IdleTask
           ELSE [@ EXCEPT !.pc = "complete_get_workflow",
                          !.executions = executions]]
    /\ UNCHANGED <<now, wfVars, mailVars>>

\* the awaited get_workflow(execution.workflow_id) reads the workflows
CompleteGetWorkflow(k) ==
    LET execs == tasks[k].executions
        i == ExecutionIndex(execs, tasks[k].execution_id)
        w == WorkflowIndex(workflows, execs[i].workflow_id)
    IN  /\ tasks[k].pc = "complete_get_workflow"
        /\ tasks' = [tasks EXCEPT ![k] =
               IF w = 0
               THEN IdleTask
               ELSE [@ EXCEPT !.pc = "complete_save_executions",
                              !.workflow = Some(workflows[w])]]
        /\ UNCHANGED <<now, wfVars, mailVars>>

\* the rest of complete_execution_step: the step is applied to the
\* execution in the list loaded before the await, and that list is saved
CompleteSaveExecutions(k) ==
    LET execs == tasks[k].executions
        i == ExecutionIndex(execs, tasks[k].execution_id)
    IN  /\ tasks[k].pc = "complete_save_executions"
        /\ executions' = [execs EXCEPT ![i] =
               CompletedStep(execs[i], tasks[k].workflow[1],
                             tasks[k].success, now)]
        /\ tasks' = [tasks EXCEPT ![k] = IdleTask]
        /\ UNCHANGED <<now, workflows, mailVars>>

\* workflow_data of the workflows the tasks work on: one step, due at once
TaskWorkflowData == {WorkflowDict(None, Some(<<StepData("t1", 0, 0)>>))}

\* a call takes the first idle frame
FirstIdle(k) == \A j \in 1..(k - 1) : tasks[j].pc # "idle"

WithinTaskBounds ==
    /\ Len(workflows') <= MaxWorkflows
    /\ Len(executions') <= MaxExecutions
    /\ \A i \in 1..Len(executions') : executions'[i].current_step <= MaxTaskStep

\* triggers and completions of steps in flight together
NextTasks ==
    \/ \E data \in TaskWorkflowData : CreateWorkflow(data) /\ WithinTaskBounds
    \/ \E k \in Tasks, w \in WorkflowIdInputs, l \in Leads :
           FirstIdle(k) /\ StartTrigger(k, w, l) /\ WithinTaskBounds
    \/ \E k \in Tasks : TriggerGetWorkflow(k) /\ WithinTaskBounds
    \/ \E k \in Tasks : TriggerCheckCreate(k) /\ WithinTaskBounds
    \/ \E k \in Tasks : TriggerUpdateWorkflow(k) /\ WithinTaskBounds
    \/ \E k \in Tasks, x \in ExecutionIdInputs, ok \in BOOLEAN :
           FirstIdle(k) /\ StartComplete(k, x, ok) /\ WithinTaskBounds
    \/ \E k \in Tasks : CompleteLoadExecutions(k) /\ WithinTaskBounds
    \/ \E k \in Tasks : CompleteGetWorkflow(k) /\ WithinTaskBounds
    \/ \E k \in Tasks : CompleteSaveExecutions(k) /\ WithinTaskBounds

SpecTasks == Init /\ [][NextTasks]_vars

-----------------------------------------------------------------------------
(* Claims about the workflow engine *)

\* the stored executions of a pair that are active
ActiveOf(w, l) ==
    {i \in 1..Len(executions) :
        /\ executions[i].workflow_id = w
        /\ executions[i].lead_id = l
        /\ executions[i].status = "active"}

\* the stored workflow get_workflow returns for an id is active
IsActiveWorkflow(w) ==
    \E i \in 1..Len(workflows) :
        /\ workflows[i].id = w
        /\ \A j \in 1..(i - 1) : workflows[j].id # w
        /\ workflows[i].status = "active"

OneActivePerPair ==
    \A w \in WorkflowIdInputs, l \in Leads : Cardinality(ActiveOf(w, l)) <= 1

\* C1 as stated: at most one active Execution per (workflow_id, lead_id), and
\* trigger_workflow for a pair that already has an active Execution returns
\* success and leaves the executions store unchanged.
C1_Original ==
    /\ OneActivePerPair
    /\ \A w \in WorkflowIdInputs, l \in Leads :
           ActiveOf(w, l) # {} =>
               LET out == TriggerOutcome(workflows, executions, w, l, now) IN
               out.ret = TRUE /\ out.executions = executions

\* C1 amended: at most one active Execution per (workflow_id, lead_id); a
\* trigger_workflow for a pair that already has an active Execution leaves the
\* executions store unchanged, and returns success exactly when the workflow
\* is active (it returns false for a paused or draft workflow).
C1_IdempotentTrigger ==
    /\ OneActivePerPair
    /\ \A w \in WorkflowIdInputs, l \in Leads :
           ActiveOf(w, l) # {} =>
               LET out == TriggerOutcome(workflows, executions, w, l, now) IN
               /\ out.executions = executions
               /\ out.ret = IsActiveWorkflow(w)

\* a pair was triggered, its execution ended, and it was triggered again: it
\* holds one active execution beside the ended one, under an active workflow
C1_Witness ==
    \E i, j \in 1..Len(executions) :
        /\ executions[i].status = "active"
        /\ executions[j].status # "active"
        /\ executions[j].workflow_id = executions[i].workflow_id
        /\ executions[j].lead_id = executions[i].lead_id
        /\ IsActiveWorkflow(executions[i].workflow_id)

\* the steps of the workflow an execution belongs to (get_workflow's answer)
StepsOf(e) ==
    LET i == WorkflowIndex(workflows, e.workflow_id) IN
    IF i = 0 THEN <<>> ELSE workflows[i].steps

\* C2: for every stored Execution, 0 <= current_step <= len(steps of its
\* workflow), and current_step == len(steps) iff status == completed.
C2_StepProgressionBound ==
    \A i \in 1..Len(executions) :
        LET e == executions[i]
            n == Len(StepsOf(e))
        IN  /\ 0 <= e.current_step
            /\ e.current_step <= n
            /\ (e.current_step = n) <=> (e.status = "completed")

\* C3: failed and completed are terminal: no step changes the status or the
\* current_step of a failed or completed Execution or schedules it again; the
\* only status transitions are active->active, active->completed and
\* active->failed.
C3_TerminalStatuses ==
    [][\A i \in 1..Len(executions) :
          (/\ i <= Len(executions')
           /\ executions'[i].id = executions[i].id
           /\ Len(executions') >= Len(executions))
          => /\ executions[i].status \in {"failed", "completed"} =>
                    /\ executions'[i].status = executions[i].status
                    /\ executions'[i].current_step = executions[i].current_step
                    /\ executions'[i].next_execution = None
             /\ executions[i].status = "active" =>
                    executions'[i].status \in {"active", "completed", "failed"}
      ]_vars

\* the delay of a step: its days and hours, added
StepDelay(step) == step.delay_days * DAY + step.delay_hours * HOUR

PendingNow == PendingExecutions(executions, now)

\* C5: every step that appends an email history record for a due execution
\* with a step left to run (the record names the execution's workflow and
\* lead) whose to_email, an actual address, is on the suppression list
\* dispatches nothing: the record is not a "sent" one.
C5_SuppressionGate ==
    [][Len(email_history') = Len(email_history) + 1 =>
          LET rec == email_history'[Len(email_history')] IN
          (/\ Normalize(rec.to_email) # <<>>
           /\ IsEmailSuppressed(suppression_list, rec.to_email)
           /\ \E i \in 1..Len(PendingNow) :
                  /\ Some(PendingNow[i].workflow_id) = rec.workflow_id
                  /\ Some(PendingNow[i].lead_id) = rec.lead_id
                  /\ PendingNow[i].current_step < Len(StepsOf(PendingNow[i])))
          => rec.status # "sent"]_vars

\* w is stored and paused
IsPausedWorkflow(w) ==
    LET k == WorkflowIndex(workflows, w) IN
    k # 0 /\ workflows[k].status = "paused"

\* C6: pause_workflow and activate_workflow leave every execution as it is
\* and change nothing of a workflow but its status; an active execution of a
\* paused workflow is still pending once due and complete_execution_step
\* still advances or completes it, while trigger_workflow on the paused
\* workflow for a lead without an active execution returns False and stores
\* nothing.
C6_PauseKeepsExecutions ==
    /\ [][\A w \in WorkflowIdInputs :
              (PauseWorkflow(w) \/ ActivateWorkflow(w)) =>
                  /\ executions' = executions
                  /\ Len(workflows') = Len(workflows)
                  /\ \A j \in 1..Len(workflows) :
                         [workflows'[j] EXCEPT !.status = workflows[j].status]
                             = workflows[j]]_vars
    /\ [](\A i \in 1..Len(executions) :
              LET e == executions[i] IN
              (e.status = "active" /\ IsPausedWorkflow(e.workflow_id)) =>
                  /\ (e.next_execution # None /\ e.next_execution[1] <= now)
                         => \E j \in 1..Len(PendingNow) : PendingNow[j] = e
                  /\ ExecutionIndex(executions, e.id) = i =>
                         LET out == CompleteOutcome(workflows, executions, e.id,
                                                    TRUE, now) IN
                         /\ out.ret = TRUE
                         /\ out.executions[i].current_step = e.current_step + 1
                         /\ out.executions[i].status =
                                IF e.current_step + 1 >= Len(StepsOf(e))
                                THEN "completed" ELSE "active"
                  /\ \A l \in Leads :
                         ActiveOf(e.workflow_id, l) = {} =>
                             LET out == TriggerOutcome(workflows, executions,
                                                       e.workflow_id, l, now) IN
                             /\ out.ret = FALSE
                             /\ out.executions = executions
                             /\ out.workflows = workflows)

\* a paused workflow with an in-flight execution that has advanced a step, is
\* due, and will be advanced again; another lead has no execution of it
C6_Witness ==
    \E i \in 1..Len(executions) :
        /\ executions[i].status = "active"
        /\ IsPausedWorkflow(executions[i].workflow_id)
        /\ executions[i].current_step = 1
        /\ Len(StepsOf(executions[i])) = 2
        /\ executions[i].next_execution # None
        /\ executions[i].next_execution[1] <= now
        /\ ExecutionIndex(executions, executions[i].id) = i
        /\ \E l \in Leads : ActiveOf(executions[i].workflow_id, l) = {}

\* C7: the suppression list never holds two entries of one email, every
\* entry's email is in normalized form, and add_to_suppression_list on an
\* already-suppressed email returns True and leaves the list, and so the
\* existing entry's reason, source and added_at, as it is.
C7_OneEntryPerEmail ==
    /\ \A i, j \in 1..Len(suppression_list) :
           suppression_list[i].email = suppression_list[j].email => i = j
    /\ \A i \in 1..Len(suppression_list) :
           suppression_list[i].email = Normalize(suppression_list[i].email)
    /\ \A e \in EmailInputs, r \in {"manual", "bounced"}, src \in {"manual", "api"} :
           IsEmailSuppressed(suppression_list, e) =>
               LET out == AddOutcome(suppression_list, e, r, src, now) IN
               /\ out.ret = TRUE
               /\ out.suppression_list = suppression_list

\* two emails are suppressed, one by an unsubscribe and one by a bounce or
\* an import, so every further add is one on an already-suppressed email
C7_Witness ==
    /\ Len(suppression_list) = 2
    /\ \E i, j \in 1..2 :
           /\ suppression_list[i].reason = "unsubscribed"
           /\ suppression_list[j].reason \in {"bounced", "complained", "imported"}
    /\ \A e \in EmailInputs : IsEmailSuppressed(suppression_list, e)

\* C8: two email strings that are equal after lower-casing and trimming get
\* the same answer from is_email_suppressed and from get_suppression_reason.
C8_LookupNormalized ==
    \A x, y \in EmailInputs :
        Normalize(x) = Normalize(y) =>
            /\ IsEmailSuppressed(suppression_list, x)
                   = IsEmailSuppressed(suppression_list, y)
            /\ SuppressionReason(suppression_list, x)
                   = SuppressionReason(suppression_list, y)

\* an email is found suppressed, with its reason, under an upper-case form
\* padded with whitespace, while another email is not suppressed
C8_Witness ==
    /\ IsEmailSuppressed(suppression_list, <<" ", "A">>)
    /\ SuppressionReason(suppression_list, <<"A", " ">>) = Some("unsubscribed")
    /\ ~IsEmailSuppressed(suppression_list, <<" ">>)

\* C9: every step keeps every suppression entry, unaltered, unless the step
\* is a remove_from_suppression_list for that entry's email.
C9_SuppressionPermanent ==
    [][\A i \in 1..Len(suppression_list) :
           \/ \E j \in 1..Len(suppression_list') :
                  suppression_list'[j] = suppression_list[i]
           \/ \E e \in EmailInputs :
                  /\ Normalize(e) = suppression_list[i].email
                  /\ RemoveFromSuppressionList(e)]_vars

\* a manually suppressed email went through bounce handling and through
\* failed retries up to the retry limit, and its entry is still the manual one
C9_Witness ==
    \E i \in 1..Len(suppression_list) :
        /\ suppression_list[i].reason = "manual"
        /\ \E j \in 1..Len(bounce_records) :
               /\ bounce_records[j].email = suppression_list[i].email
               /\ bounce_records[j].bounce_type = "hard"
        /\ \E k \in 1..Len(delivery_failures) :
               /\ delivery_failures[k].email = suppression_list[i].email
               /\ delivery_failures[k].retry_count >= delivery_failures[k].max_retries

\* the email's bounce record was created with count 1 or its count went up by one
BounceRecorded(br, out, email) ==
    LET i == BounceIndex(br, Normalize(email)) IN
    IF i = 0
    THEN /\ Len(out.bounce_records) = Len(br) + 1
         /\ out.bounce_records[Len(br) + 1].email = Normalize(email)
         /\ out.bounce_records[Len(br) + 1].bounce_count = 1
    ELSE /\ Len(out.bounce_records) = Len(br)
         /\ out.bounce_records[i].bounce_count = br[i].bounce_count + 1

\* the suppression reason handle_bounce files a bounce type under
BounceReason(bounce_type) == IF bounce_type = "hard" THEN "bounced" ELSE "complained"

\* C10 as stated: after handle_bounce with type hard (complaint) the email is
\* suppressed with reason "bounced" ("complained"), and its bounce record
\* was created or its bounce_count incremented.
C10_Original ==
    \A e \in EmailInputs, bt \in {"hard", "complaint"}, r \in ResendIds :
        LET out == HandleBounceOutcome(bounce_records, suppression_list,
                                       email_history, e, bt, r, now) IN
        /\ out.ret = TRUE
        /\ IsEmailSuppressed(out.suppression_list, e)
        /\ SuppressionReason(out.suppression_list, e) = Some(BounceReason(bt))
        /\ BounceRecorded(bounce_records, out, e)

\* C10: after handle_bounce with type hard or complaint the email is
\* suppressed; its reason is "bounced" (hard) or "complained" (complaint) when
\* it was not suppressed before the call, and the reason it already had
\* otherwise; its bounce record was created or its bounce_count incremented.
C10_BounceSuppresses ==
    \A e \in EmailInputs, bt \in {"hard", "complaint"}, r \in ResendIds :
        LET out == HandleBounceOutcome(bounce_records, suppression_list,
                                       email_history, e, bt, r, now) IN
        /\ out.ret = TRUE
        /\ IsEmailSuppressed(out.suppression_list, e)
        /\ SuppressionReason(out.suppression_list, e) =
               IF IsEmailSuppressed(suppression_list, e)
               THEN SuppressionReason(suppression_list, e)
               ELSE Some(BounceReason(bt))
        /\ BounceRecorded(bounce_records, out, e)

\* a complaint suppressed an email as complained, a second bounce of the email
\* raised its bounce_count, and another email that was suppressed by hand
\* kept that reason through a hard bounce
C10_Witness ==
    /\ \E i \in 1..Len(bounce_records), j \in 1..Len(suppression_list) :
           /\ bounce_records[i].bounce_count = 2
           /\ suppression_list[j].email = bounce_records[i].email
           /\ suppression_list[j].reason = "complained"
    /\ \E i \in 1..Len(bounce_records), j \in 1..Len(suppression_list) :
           /\ bounce_records[i].bounce_type = "hard"
           /\ suppression_list[j].email = bounce_records[i].email
           /\ suppression_list[j].reason = "manual"

-----------------------------------------------------------------------------
(* Claims about the bounce / delivery-failure ledger *)

\* C11: handle_bounce with type soft on an email that is not suppressed
\* records the bounce and suppresses the email, with reason "bounced", exactly
\* when the bounce_count it recorded is >= 5; below that the suppression list
\* stays as it is, so a fresh email's first four soft bounces leave it
\* unsuppressed and the fifth adds the entry.
C11_SoftBounceThreshold ==
    \A e \in EmailInputs, r \in ResendIds :
        ~IsEmailSuppressed(suppression_list, e) =>
            LET out == HandleBounceOutcome(bounce_records, suppression_list,
                                           email_history, e, "soft", r, now)
                k == BounceIndex(out.bounce_records, Normalize(e))
                count == out.bounce_records[k].bounce_count
            IN  /\ BounceRecorded(bounce_records, out, e)
                /\ IsEmailSuppressed(out.suppression_list, e) <=> count >= 5
                /\ count >= 5 =>
                       /\ Len(out.suppression_list) = Len(suppression_list) + 1
                       /\ SuppressionReason(out.suppression_list, e) = Some("bounced")
                /\ count < 5 => out.suppression_list = suppression_list

\* one email took its fifth bounce as a soft one and is suppressed as
\* bounced, another took four soft bounces and is not suppressed
C11_Witness ==
    /\ \E i \in 1..Len(bounce_records) :
           /\ bounce_records[i].bounce_count = 5
           /\ bounce_records[i].bounce_type = "soft"
           /\ SuppressionReason(suppression_list, bounce_records[i].email)
                  = Some("bounced")
    /\ \E i \in 1..Len(bounce_records) :
           /\ bounce_records[i].bounce_count = 4
           /\ bounce_records[i].bounce_type = "soft"
           /\ ~IsEmailSuppressed(suppression_list, bounce_records[i].email)

\* C12: every stored delivery failure has retry_count <= max_retries.
C12_RetryCountBound ==
    \A i \in 1..Len(delivery_failures) :
        delivery_failures[i].retry_count <= delivery_failures[i].max_retries

\* C13: every step that raises a stored delivery failure's retry_count by one
\* to a value below max_retries sets its next_retry_at to the time of the
\* failure plus 2^retry_count minutes, later than the next_retry_at it had.
C13_BackoffMinutes ==
    [][\A i \in 1..Len(delivery_failures) :
           (/\ i <= Len(delivery_failures')
            /\ delivery_failures'[i].email = delivery_failures[i].email
            /\ delivery_failures'[i].resend_id = delivery_failures[i].resend_id
            /\ delivery_failures'[i].retry_count = delivery_failures[i].retry_count + 1
            /\ delivery_failures'[i].retry_count < delivery_failures'[i].max_retries)
           => /\ delivery_failures'[i].next_retry_at =
                     Some(now + Pow2(delivery_failures'[i].retry_count) * MINUTE)
              /\ delivery_failures'[i].next_retry_at[1]
                     > delivery_failures[i].next_retry_at[1]]_vars

\* the retry_count of the i-th delivery failure reaches max_retries in this step
ReachesMaxRetries(i) ==
    /\ i <= Len(delivery_failures')
    /\ delivery_failures'[i].email = delivery_failures[i].email
    /\ delivery_failures'[i].resend_id = delivery_failures[i].resend_id
    /\ delivery_failures[i].retry_count < delivery_failures[i].max_retries
    /\ delivery_failures'[i].retry_count >= delivery_failures'[i].max_retries

\* the email has a bounce record of type hard
HasHardBounce(br, email) ==
    \E j \in 1..Len(br) : br[j].email = email /\ br[j].bounce_type = "hard"

\* times at and after the current one
LaterTimes == {now + d : d \in {0, HOUR, DAY, 30 * DAY}}

\* f is not returned by get_emails_for_retry at any later time
NeverRetried(df, f) ==
    \A t \in LaterTimes :
        \A j \in 1..Len(EmailsForRetry(df, t)) : EmailsForRetry(df, t)[j] # f

\* C14 as stated: the step in which a delivery failure's retry_count reaches
\* max_retries leaves the email suppressed with reason "bounced" and with a
\* bounce record of type hard, and the failure is not returned by
\* get_emails_for_retry at any later time.
C14_Original ==
    [][\A i \in 1..Len(delivery_failures) :
           ReachesMaxRetries(i) =>
               /\ SuppressionReason(suppression_list', delivery_failures[i].email)
                      = Some("bounced")
               /\ HasHardBounce(bounce_records', delivery_failures[i].email)
               /\ NeverRetried(delivery_failures', delivery_failures'[i])]_vars

\* C14: the step in which a delivery failure's retry_count reaches
\* max_retries leaves the email suppressed, with reason "bounced" when it
\* was not suppressed before and with the reason it already had otherwise,
\* and with a bounce record of type hard; a stored failure whose retry_count
\* is at max_retries or above is not returned by get_emails_for_retry at any
\* later time, and no step brings its retry_count back below max_retries.
C14_RetryExhaustion ==
    /\ [][\A i \in 1..Len(delivery_failures) :
              ReachesMaxRetries(i) =>
                  /\ IsEmailSuppressed(suppression_list', delivery_failures[i].email)
                  /\ SuppressionReason(suppression_list', delivery_failures[i].email) =
                         IF IsEmailSuppressed(suppression_list,
                                              delivery_failures[i].email)
                         THEN SuppressionReason(suppression_list,
                                                delivery_failures[i].email)
                         ELSE Some("bounced")
                  /\ HasHardBounce(bounce_records', delivery_failures[i].email)]_vars
    /\ [][\A i \in 1..Len(delivery_failures), j \in 1..Len(delivery_failures') :
              (/\ delivery_failures'[j].email = delivery_failures[i].email
               /\ delivery_failures'[j].resend_id = delivery_failures[i].resend_id
               /\ delivery_failures[i].retry_count >= delivery_failures[i].max_retries)
              => delivery_failures'[j].retry_count >= delivery_failures'[j].max_retries]_vars
    /\ [](\A i \in 1..Len(delivery_failures) :
              delivery_failures[i].retry_count >= delivery_failures[i].max_retries
                  => NeverRetried(delivery_failures, delivery_failures[i]))

\* a delivery failure has used up its retries, its email is suppressed as
\* bounced and has a hard bounce record
C14_Witness ==
    \E i \in 1..Len(delivery_failures) :
        /\ delivery_failures[i].retry_count = delivery_failures[i].max_retries
        /\ delivery_failures[i].next_retry_at # None
        /\ delivery_failures[i].next_retry_at[1] <= now + DAY
        /\ SuppressionReason(suppression_list, delivery_failures[i].email)
               = Some("bounced")
        /\ HasHardBounce(bounce_records, delivery_failures[i].email)

-----------------------------------------------------------------------------
(* Claims about the suppression / compliance gate *)

\* the number of suppression entries of an email
EntriesOf(sl, email) ==
    Cardinality({i \in 1..Len(sl) : sl[i].email = Normalize(email)})

\* C15: every unsubscribe_email call that returns True appends exactly one
\* unsubscribe record, for the normalized email, keeps the records it found,
\* and leaves exactly one suppression entry of the email.
C15_UnsubscribeAudit ==
    \A e \in EmailInputs :
        LET out == UnsubscribeOutcome(suppression_list, unsubscribe_records,
                                      e, "email_link", now) IN
        out.ret = TRUE =>
            /\ Len(out.unsubscribe_records) = Len(unsubscribe_records) + 1
            /\ SubSeq(out.unsubscribe_records, 1, Len(unsubscribe_records))
                   = unsubscribe_records
            /\ out.unsubscribe_records[Len(out.unsubscribe_records)].email
                   = Normalize(e)
            /\ EntriesOf(out.suppression_list, e) = 1

\* tokens of the unsubscribe link of e issued at t with one part altered
AlteredTokens(e, t) ==
    LET timestamp == ToDigits(t)
        digest == Sha(Join3(e, timestamp, Secret))
    IN  {[b64 |-> Join3(e2, timestamp, digest)] : e2 \in TokenEmails \ {e}}
        \cup {[b64 |-> Join3(e, ToDigits(t2), digest)] : t2 \in IssueTimes \ {t}}
        \cup {[b64 |-> Join3(e, timestamp, digest \o <<"0">>)],
              [b64 |-> Join3(e, timestamp, Tail(digest))]}

\* C16: the token of the unsubscribe link of any email e issued at time t
\* verifies to a result with email e at every time up to t + 30 days and to
\* null after it; with its email, timestamp or digest altered it verifies to
\* null.
C16_TokenRoundTrip ==
    \A e \in TokenEmails, t \in IssueTimes :
        t <= now =>
            /\ now <= t + 30 * DAY =>
                   /\ VerifyToken(GenerateToken(e, t), now) # None
                   /\ VerifyToken(GenerateToken(e, t), now)[1].email = e
            /\ now > t + 30 * DAY => VerifyToken(GenerateToken(e, t), now) = None
            /\ \A token \in AlteredTokens(e, t) : VerifyToken(token, now) = None

-----------------------------------------------------------------------------
(* Claims about workflow bookkeeping *)

\* C17: a trigger_workflow call that stores a new execution raises the stored
\* workflow's total_triggered by one and sets its last_activity to the time
\* of the trigger; a call that stores no execution leaves the workflows as
\* they are.
C17_TriggerCounters ==
    \A w \in WorkflowIdInputs, l \in Leads :
        LET out == TriggerOutcome(workflows, executions, w, l, now)
            k == WorkflowIndex(workflows, w)
        IN  /\ Len(out.executions) = Len(executions) + 1 =>
                   /\ out.workflows[k].total_triggered
                          = workflows[k].total_triggered + 1
                   /\ out.workflows[k].last_activity = Some(now)
            /\ Len(out.executions) = Len(executions) => out.workflows = workflows

\* a workflow definition without a trigger_type or with a step without a
\* template_id
IsMalformed(data) ==
    \/ "trigger_type" \notin DOMAIN data
    \/ /\ "steps" \in DOMAIN data
       /\ \E i \in 1..Len(data["steps"]) : "template_id" \notin DOMAIN data["steps"][i]

\* C18: a create_workflow or update_workflow step with a malformed definition
\* stores and changes no workflow, and no stored workflow has a step with an
\* empty template_id.
C18_ValidationRejects ==
    /\ [][\A data \in WorkflowDataInputs(EngineDelays) :
              (/\ IsMalformed(data)
               /\ \/ CreateWorkflow(data)
                  \/ \E w \in WorkflowIdInputs : UpdateWorkflow(w, data))
              => workflows' = workflows]_vars
    /\ [](\A i \in 1..Len(workflows) :
              \A j \in 1..Len(workflows[i].steps) :
                  workflows[i].steps[j].template_id # "")

\* C19: whatever becomes of the writes to the store files, a create_workflow
\* or update_workflow call that returns a workflow leaves that workflow in
\* the store, and a trigger_workflow call that returns True leaves an active
\* execution of the pair in the store.
C19_SuccessMeansStored ==
    \A data \in WorkflowDataInputs(EngineDelays), s \in SaveResults :
        /\ LET out == CreateStoreOutcome(workflows, data, now, s) IN
           out.ret # None =>
               \E i \in 1..Len(out.workflows) : out.workflows[i] = out.ret[1]
        /\ \A w \in WorkflowIdInputs :
               LET out == UpdateStoreOutcome(workflows, w, data, s) IN
               out.ret # None =>
                   \E i \in 1..Len(out.workflows) : out.workflows[i] = out.ret[1]
        /\ \A w \in WorkflowIdInputs, l \in Leads, sw \in SaveResults :
               LET out == TriggerStoreOutcome(workflows, executions, w, l, now,
                                              s, sw) IN
               out.ret = TRUE =>
                   HasActiveExecution(out.executions, w, l)

\* C20: delete_workflow on the id of a stored workflow returns True, removes
\* the workflows of that id and the executions whose workflow_id it is, and
\* keeps every other workflow and execution as it is; on an unknown id it
\* returns False and changes nothing.  Every stored execution refers to a
\* stored workflow.
C20_DeleteCascade ==
    /\ \A w \in WorkflowIdInputs :
           LET out == DeleteOutcome(workflows, executions, w)
               others == {i \in 1..Len(workflows) : workflows[i].id # w}
               otherExecs == {i \in 1..Len(executions) : executions[i].workflow_id # w}
           IN  IF \E i \in 1..Len(workflows) : workflows[i].id = w
               THEN /\ out.ret = TRUE
                    /\ Len(out.workflows) = Cardinality(others)
                    /\ \A i \in others :
                           \E j \in 1..Len(out.workflows) : out.workflows[j] = workflows[i]
                    /\ Len(out.executions) = Cardinality(otherExecs)
                    /\ \A i \in otherExecs :
                           \E j \in 1..Len(out.executions) :
                               out.executions[j] = executions[i]
               ELSE /\ out.ret = FALSE
                    /\ out.workflows = workflows
                    /\ out.executions = executions
    /\ \A i \in 1..Len(executions) :
           \E j \in 1..Len(workflows) : workflows[j].id = executions[i].workflow_id

\* the first of two workflows was deleted; the second, created while the
\* first was stored, is left with its two executions after the clock moved
C20_Witness ==
    /\ Len(workflows) = 1
    /\ workflows[1].id[1] = 2
    /\ Len(executions) = 2
    /\ \A i \in 1..2 : executions[i].workflow_id = workflows[1].id
    /\ now > workflows[1].id[2]

-----------------------------------------------------------------------------
(* Claims C21 - C30 *)

\* C21: trigger_workflow(workflow_id, lead_id) returns false and leaves the
\* executions store and the workflow's counters unchanged whenever the
\* workflow does not exist or its status is not active (paused or draft).
C21_InactiveTriggerRejected ==
    \A w \in WorkflowIdInputs, l \in Leads :
        ~IsActiveWorkflow(w) =>
            LET out == TriggerOutcome(workflows, executions, w, l, now) IN
            /\ out.ret = FALSE
            /\ out.executions = executions
            /\ out.workflows = workflows

\* a stored workflow is paused or draft and a lead has no active execution
\* of it, so that a trigger of an active workflow would have created one
C21_Witness ==
    \E i \in 1..Len(workflows), l \in Leads :
        /\ workflows[i].status \in {"paused", "draft"}
        /\ ~IsActiveWorkflow(workflows[i].id)
        /\ ActiveOf(workflows[i].id, l) = {}
        /\ TriggerOutcome(workflows, executions, workflows[i].id, l, now).ret = FALSE

\* the positions of the stored executions that are active and due
DueNow ==
    {i \in 1..Len(executions) :
        /\ executions[i].status = "active"
        /\ executions[i].next_execution # None
        /\ executions[i].next_execution[1] <= now}

\* C22: at any time now, get_pending_executions returns exactly the stored
\* Executions with status active and non-null next_execution <= now: none
\* before its scheduled time, none completed or failed, no due active one
\* omitted.
C22_PendingExactlyDue ==
    LET res == PendingExecutions(executions, now) IN
    /\ \A k \in 1..Len(res) : \E i \in DueNow : executions[i] = res[k]
    /\ \A i \in DueNow : \E k \in 1..Len(res) : res[k] = executions[i]
    /\ Len(res) = Cardinality(DueNow)

\* one active execution is due and returned while another active one is not
\* yet due and a clock has advanced
C22_Witness ==
    /\ now > 0
    /\ Len(PendingExecutions(executions, now)) = 1
    /\ \E i \in 1..Len(executions) :
           /\ executions[i].status = "active"
           /\ executions[i].next_execution # None
           /\ executions[i].next_execution[1] > now

\* the two ways of recording one more failed attempt of a stored failure,
\* both called with the failure's own email and resend_id
RetryFailed(f) ==
    MarkRetryCompletedOutcome(delivery_failures, bounce_records,
        suppression_list, email_history, f.email, f.resend_id, FALSE, now)

FailedAgain(f) ==
    HandleDeliveryFailureOutcome(delivery_failures, bounce_records,
        suppression_list, email_history, f.email, f.resend_id, now)

\* C23: from the same stored DeliveryFailure for (email, resend_id),
\* mark_retry_completed(email, resend_id, success=false) and
\* handle_delivery_failure(email, ..., resend_id) produce the same
\* retry_count, the same next_retry_at and the same escalation outcome: a
\* hard BounceRecord plus suppression exactly when the incremented
\* retry_count >= max_retries.
C23_RetryPathsAgree ==
    \A i \in 1..Len(delivery_failures) :
        LET f == delivery_failures[i]
            k == FailureIndex(delivery_failures, f.email, f.resend_id)
            a == RetryFailed(f)
            b == FailedAgain(f)
        IN  /\ a.delivery_failures[k].retry_count = f.retry_count + 1
            /\ a.delivery_failures[k].retry_count = b.delivery_failures[k].retry_count
            /\ a.delivery_failures[k].next_retry_at = b.delivery_failures[k].next_retry_at
            /\ a.bounce_records = b.bounce_records
            /\ a.suppression_list = b.suppression_list
            /\ IF f.retry_count + 1 >= f.max_retries
               THEN /\ a.bounce_records # bounce_records
                    /\ HasHardBounce(a.bounce_records, f.email)
                    /\ IsEmailSuppressed(a.suppression_list, f.email)
               ELSE /\ a.bounce_records = bounce_records
                    /\ a.suppression_list = suppression_list

\* a stored failure is one failed attempt away from max_retries, its email
\* is not yet suppressed, and a failed retry escalates it
C23_Witness ==
    \E i \in 1..Len(delivery_failures) :
        LET f == delivery_failures[i] IN
        /\ f.retry_count + 1 = f.max_retries
        /\ ~IsEmailSuppressed(suppression_list, f.email)
        /\ IsEmailSuppressed(RetryFailed(f).suppression_list, f.email)
        /\ now > 0

\* C24: after handle_delivery_failure(e, ..., resend_id=r) has recorded a
\* failure, mark_retry_completed(e, r, success=true) called with the same
\* email string e, in any letter case or with surrounding whitespace, removes
\* that DeliveryFailure: it is no longer stored and no longer returned by
\* get_emails_for_retry, and all other DeliveryFailure records are unchanged.
C24_SuccessfulRetryResolves ==
    \A i \in 1..Len(delivery_failures), e \in EmailInputs :
        LET f == delivery_failures[i]
            k == FailureIndex(delivery_failures, f.email, f.resend_id)
            out == MarkRetryCompletedOutcome(delivery_failures, bounce_records,
                       suppression_list, email_history, e, f.resend_id, TRUE, now)
        IN  Normalize(e) = f.email =>
                /\ out.delivery_failures = RemoveAt(delivery_failures, k)
                /\ \A t \in LaterTimes :
                       Len(EmailsForRetry(out.delivery_failures, t))
                           = Len(EmailsForRetry(RemoveAt(delivery_failures, k), t))

\* the stored bounce records of a normalized email
BounceRecordsOf(e) == {i \in 1..Len(bounce_records) : bounce_records[i].email = e}

\* C25: in every reachable state there is at most one BounceRecord per
\* normalized email, each record has last_bounce_at >= bounced_at and
\* bounce_count >= 1, and between consecutive states a record's bounce_count
\* never decreases while the record exists: each handle_bounce for that email
\* increases it by exactly 1, and only cleanup_old_records removes a record.
C25_BounceRecordInvariants ==
    /\ [](\A i \in 1..Len(bounce_records) :
             LET r == bounce_records[i] IN
             /\ r.email = Normalize(r.email)
             /\ Cardinality(BounceRecordsOf(r.email)) = 1
             /\ r.last_bounce_at >= r.bounced_at
             /\ r.bounce_count >= 1
             /\ \A e \in EmailInputs, bt \in BounceTypes :
                    Normalize(e) = r.email =>
                        LET out == HandleBounceOutcome(bounce_records,
                                       suppression_list, email_history,
                                       e, bt, None, now)
                        IN  /\ Len(out.bounce_records) = Len(bounce_records)
                            /\ out.bounce_records[i].email = r.email
                            /\ out.bounce_records[i].bounce_count
                                   = r.bounce_count + 1)
    /\ [][\A i \in 1..Len(bounce_records) :
             LET r == bounce_records[i]
                 j == BounceIndex(bounce_records', r.email)
             IN  /\ j # 0 =>
                        /\ bounce_records'[j].bounce_count >= r.bounce_count
                        /\ bounce_records'[j].bounced_at = r.bounced_at
                 /\ j = 0 => \E d \in DaysOldInputs : CleanupOldRecords(d)]_vars

\* an email has bounced twice at different times and its one record counts
\* both, beside the record of another email
C25_Witness ==
    \E i, j \in 1..Len(bounce_records) :
        /\ bounce_records[i].bounce_count = 2
        /\ bounce_records[i].last_bounce_at > bounce_records[i].bounced_at
        /\ bounce_records[j].email # bounce_records[i].email

\* the elements of an input list whose lower-cased, trimmed form is not on
\* the suppression list, in input order
NotSuppressedOf(email_list) ==
    LET Free(x) == ~IsEmailSuppressed(suppression_list, x)
    IN  SelectSeq(email_list, Free)

\* C26: filter_suppressed_emails(list) is a pure filter: it changes no store,
\* and its result is exactly the subsequence of the input list, in input
\* order and with the input elements themselves, of the emails whose
\* lower-cased, trimmed form is not on the suppression list.
C26_FilterReturnsInputElements ==
    \A email_list \in SeqsUpTo(EmailInputs, MaxBulk) :
        FilterSuppressedEmails(suppression_list, email_list)
            = NotSuppressedOf(email_list)

\* the active executions of a pair in an executions list
ActiveIn(execs, w, l) ==
    {i \in 1..Len(execs) :
        /\ execs[i].workflow_id = w
        /\ execs[i].lead_id = l
        /\ execs[i].status = "active"}

\* C27: when two or more trigger_workflow tasks for the same
\* (workflow_id, lead_id) run concurrently and interleave at their await
\* points, the check for an existing active Execution and the creation of
\* the new one are not separated by any suspension point: a trigger creates
\* an Execution only when the store holds no active one of the pair, so
\* exactly one is created, and at most one active Execution per pair exists.
C27_ConcurrentTriggerCreatesOne ==
    /\ [](\A w \in WorkflowIdInputs, l \in Leads :
             Cardinality(ActiveIn(executions, w, l)) <= 1)
    /\ [][\A k \in Tasks :
             (tasks[k].pc = "trigger_check_create" /\ tasks'[k] # tasks[k]) =>
                 LET w == tasks[k].workflow_id
                     l == tasks[k].lead_id
                 IN  IF ActiveIn(executions, w, l) # {}
                     THEN executions' = executions
                     ELSE /\ Len(executions') = Len(executions) + 1
                          /\ SubSeq(executions', 1, Len(executions)) = executions
                          /\ Cardinality(ActiveIn(executions', w, l)) = 1]_vars

\* two triggers of one pair are in flight: one has created the execution and
\* waits in its update of the counters, the other has looked up the workflow
\* and is about to check
C27_Witness ==
    \E j, k \in Tasks :
        /\ tasks[j].pc = "trigger_update_workflow"
        /\ tasks[k].pc = "trigger_check_create"
        /\ tasks[j].workflow_id = tasks[k].workflow_id
        /\ tasks[j].lead_id = tasks[k].lead_id
        /\ Cardinality(ActiveIn(executions, tasks[k].workflow_id, tasks[k].lead_id)) = 1

RECURSIVE CompletedTimes(_, _, _)
CompletedTimes(execs, execution_id, n) ==
    IF n = 0 THEN execs
    ELSE CompletedTimes(
             CompleteOutcome(workflows, execs, execution_id, TRUE, now).executions,
             execution_id, n - 1)

\* C29: every Execution eventually reaches completed or failed: with its
\* workflow stored and its step list fixed, an active Execution has left the
\* active status once the driver has completed it successfully len(steps)
\* times (once, for a workflow without steps).
C29_ExecutionsTerminate ==
    \A i \in 1..Len(executions) :
        LET e == executions[i]
            n == Len(StepsOf(e))
        IN  (e.status = "active" /\ WorkflowIndex(workflows, e.workflow_id) # 0) =>
                CompletedTimes(executions, e.id, IF n = 0 THEN 1 ELSE n)[i].status
                    \in {"completed", "failed"}

\* C30: no two stored Executions share an id in any reachable state, also
\* when a pair is re-triggered within the same clock second after its earlier
\* Execution became completed or failed; hence complete_execution_step(id)
\* updates the Execution that was created with that id and only that one.
C30_UniqueExecutionIds ==
    /\ \A i, j \in 1..Len(executions) :
           i # j => executions[i].id # executions[j].id
    /\ \A i \in 1..Len(executions), ok \in BOOLEAN :
           LET out == CompleteOutcome(workflows, executions,
                                      executions[i].id, ok, now)
           IN  \A j \in 1..Len(executions) :
                   j # i => out.executions[j] = executions[j]

====
